---- MODULE Spec2Model ----
(***************************************************************************)
(* Model of src/analyse.py: class Model, the constraint builder that turns *)
(* named constraints into the matrices of a linear program, hands them to  *)
(* scipy's linprog and trims the solution.                                 *)
(*                                                                         *)
(* Numbers.  Rates, bounds and recipe counts are fixed-point numbers       *)
(* counted in quanta; matrix coefficients and expense weights are plain    *)
(* integers.  The trimming threshold of run() is eps quanta.  A linear     *)
(* program's status and minimisers scale with its right-hand sides, so the *)
(* rates 3 and 5 of the two-resource scenario are carried as 6 and 10      *)
(* quanta.  The display threshold 10^-1 of print() is display_min quanta,  *)
(* above eps and within the counts the solver model searches; the noise    *)
(* floor 1e-13 of print() lies below one quantum.  The programs the        *)
(* scenarios solve have even right-hand sides and constraint rows whose    *)
(* 2x2 determinants lie in -2..2, so each of                               *)
(* their vertices lies on the grid of whole quanta, within 0..XMax.        *)
(***************************************************************************)
EXTENDS Integers, Sequences, FiniteSets, TLC

VARIABLES
    recipes,        \* self.recipes: one row per resource, one column per recipe
    rec_names,      \* self.rec_names
    res_names,      \* self.res_names
    res_expenses,   \* self.res_expenses[0, :]
    rec_expenses,   \* self.rec_expenses[0, :]
    A_ub, b_ub,     \* self.A_ub, self.b_ub[:, 0]
    A_eq, b_eq,     \* self.A_eq, self.b_eq[:, 0]
    result,         \* self.result
    solverIn,       \* the arguments of the linprog call made by run()
    solverOut,      \* what that call returned, before run() trimmed it
    report,         \* what print() wrote, and whether it raised
    table,          \* a direct call of diminishing_table: its arguments, the
                    \* width it computed and the fields it wrote
    pc,             \* position of the caller: "build", "solved", "printed"
    left,           \* build calls the caller may still make
    caller,         \* which calls the caller draws from: "any", "scenario",
                    \* or "table" for the one who calls diminishing_table
    last,           \* the most recent build call: its name, arguments and outcome
    hist            \* history: for resource_expense the summed contributions,
                    \* the times each resource was selected and the weight
                    \* last given to it; the calls a scenario has issued

vars == <<recipes, rec_names, res_names, res_expenses, rec_expenses,
          A_ub, b_ub, A_eq, b_eq, result, solverIn, solverOut, report, table,
          pc, left, caller, last, hist>>

cset == <<A_ub, b_ub, A_eq, b_eq, res_expenses, rec_expenses>>

catalogue == <<recipes, rec_names, res_names>>

-----------------------------------------------------------------------------
(* Bounds *)

\* build calls per run in the builder specification
MaxOps == 2

\* build calls per run in the solving specification
MaxSolveOps == 3

\* largest recipe count (in quanta) the solver model searches
XMax == 12

\* values handed to a direct call of diminishing_table
MaxRows == 2

-----------------------------------------------------------------------------
(* Program constants *)

\* eps = 1e-6 of run(), in quanta
eps == 4

\* 10 ** -digs for the digs = 1 that print() passes, in quanta: above eps,
\* within the recipe counts the solver model searches
display_min == 8

\* eps = 1e-13 of print(), in quanta: below one quantum
print_eps == 0

-----------------------------------------------------------------------------
(* Sequences and vectors *)

Range(s) == {s[i] : i \in DOMAIN s}

NoDuplicates(s) == \A i, j \in DOMAIN s : s[i] = s[j] => i = j

Abs(a) == IF a >= 0 THEN a ELSE -a

\* np.zeros / np.full of one dimension
Full(n, v) == [i \in 1..n |-> v]

\* sum of a vector
SumSeq(s) ==
    LET F[i \in 0..Len(s)] == IF i = 0 THEN 0 ELSE F[i - 1] + s[i]
    IN  F[Len(s)]

\* inner product of two vectors of the same length
Dot(a, x) == SumSeq([j \in DOMAIN a |-> a[j] * x[j]])

\* M[mask, :] and v[mask]: boolean-mask indexing keeps the selected
\* entries in index order
Compress(M, mask) ==
    LET F[i \in 0..Len(M)] ==
            IF i = 0 THEN << >>
            ELSE IF mask[i] THEN Append(F[i - 1], M[i]) ELSE F[i - 1]
    IN  F[Len(M)]

NegRow(row) == [j \in DOMAIN row |-> -row[j]]

NegRows(M) == [i \in DOMAIN M |-> NegRow(M[i])]

SubRow(a, b) == [j \in DOMAIN a |-> a[j] - b[j]]

n_recipes == Len(rec_names)

n_resources == Len(res_names)

-----------------------------------------------------------------------------
(* Catalogues: the matrix and the two name arrays main() loads *)

\* a name no catalogue holds
Unknown == "Nope"

\* the two-resource scenario: R turns one B into one A
CatScenario ==
    [res_names |-> <<"A", "B">>,
     rec_names |-> <<"R">>,
     recipes   |-> << <<1>>, <<-1>> >>]

\* R turns one B into two A, the hand-operated S uses up one A
CatChain ==
    [res_names |-> <<"A", "B">>,
     rec_names |-> <<"R", "S (Manual)">>,
     recipes   |-> << <<2, -1>>, <<-1, 0>> >>]

\* the petrochemical resources, in the sorted order preprocess.py writes
CatPetro ==
    [res_names |-> <<"Heavy oil", "Light oil", "Petroleum gas">>,
     rec_names |-> <<"Oil processing", "Heavy oil cracking">>,
     recipes   |-> << <<1, -1>>, <<1, 1>>, <<1, 0>> >>]

\* a catalogue with gas and only one of the two oils
CatNoHeavy ==
    [res_names |-> <<"Light oil", "Petroleum gas">>,
     rec_names |-> <<"manual pump">>,
     recipes   |-> << <<1>>, <<1>> >>]

\* name arrays that repeat a name
CatDuplicate ==
    [res_names |-> <<"A", "A">>,
     rec_names |-> <<"R", "R">>,
     recipes   |-> << <<1, -1>>, <<-1, 1>> >>]

\* resource names that hold Light oil twice
CatTwoLight ==
    [res_names |-> <<"Heavy oil", "Light oil", "Light oil", "Petroleum gas">>,
     rec_names |-> <<"Oil processing">>,
     recipes   |-> << <<1>>, <<2>>, <<3>>, <<4>> >>]

Catalogues == {CatScenario, CatChain, CatPetro, CatNoHeavy, CatDuplicate, CatTwoLight}

SolveCatalogues == {CatScenario, CatChain, CatPetro}

\* rates and counts the caller passes, in quanta
Rates == {0, 6}

\* expense weights and penalties the caller passes
Weights == {1, 2}

-----------------------------------------------------------------------------
(* Selection by name *)

\* variant of lower: the name compared in the case it is written in
lower_unchanged(name) == name

\* r.lower() on the recipe names of the catalogues
lower(name) ==
    CASE name = "S (Manual)" -> "s (manual)"
      [] name = "R" -> "r"
      [] name = "Oil processing" -> "oil processing"
      [] name = "Heavy oil cracking" -> "heavy oil cracking"
      [] OTHER -> name

\* 'manual' in s, on the lower-cased recipe names of the catalogues
contains_manual(s) == s \in {"s (manual)", "manual pump"}

_manual_idx == [j \in 1..n_recipes |-> contains_manual(lower(rec_names[j]))]

\* np.isin(names, these)
isin(names, these) == [i \in DOMAIN names |-> names[i] \in these]

logical_not(mask) == [i \in DOMAIN mask |-> ~mask[i]]

these_resources(these) == isin(res_names, these)

resources_but(these) == logical_not(these_resources(these))

these_recipes(these) == isin(rec_names, these)

recipes_but(these) == logical_not(these_recipes(these))

-----------------------------------------------------------------------------
(* Build operations *)

\* variant of _add_ub: the new rows put in front of the existing ones
add_ub_in_front(a, b) ==
    /\ A_ub' = a \o A_ub
    /\ b_ub' = Full(Len(a), b) \o b_ub

_add_ub(a, b) ==
    /\ A_ub' = A_ub \o a
    /\ b_ub' = b_ub \o Full(Len(a), b)

\* variant of resource_equilibria: the rows put among the inequalities
resource_equilibria_as_bounds(resources) ==
    LET to_add == Compress(recipes, resources)
    IN  /\ A_ub' = A_ub \o to_add
        /\ b_ub' = b_ub \o Full(Len(to_add), 0)
        /\ UNCHANGED <<recipes, A_eq, b_eq, res_expenses, rec_expenses>>

resource_equilibria(resources) ==
    LET to_add == Compress(recipes, resources)
    IN  /\ A_eq' = A_eq \o to_add
        /\ b_eq' = b_eq \o Full(Len(to_add), 0)
        /\ UNCHANGED <<recipes, A_ub, b_ub, res_expenses, rec_expenses>>

\* the rows petro_equilibria indexes
petro_gas == Compress(recipes, these_resources({"Petroleum gas"}))

petro_oils == Compress(recipes, these_resources({"Light oil", "Heavy oil"}))

\* [0, :] of an empty selection, oils[0, :] or oils[1, :] out of range: IndexError
petro_raises == Len(petro_gas) < 1 \/ Len(petro_oils) < 2

\* variant of petro_equilibria: the selected rows taken as views of
\* self.recipes, so that the subtraction in place reaches the matrix
petro_equilibria_on_views ==
    IF petro_raises
    THEN UNCHANGED <<recipes, cset>>
    ELSE LET gas   == petro_gas[1]
             oils  == [i \in DOMAIN petro_oils |->
                          IF i <= 2 THEN SubRow(petro_oils[i], gas)
                          ELSE petro_oils[i]]
             isoil == these_resources({"Light oil", "Heavy oil"})
             nth(r) == Cardinality({q \in 1..r : isoil[q]})
         IN  /\ A_eq' = A_eq \o oils
             /\ b_eq' = b_eq \o Full(2, 0)
             /\ recipes' = [r \in DOMAIN recipes |->
                                IF isoil[r] THEN oils[nth(r)] ELSE recipes[r]]
             /\ UNCHANGED <<A_ub, b_ub, res_expenses, rec_expenses>>

\* self.recipes[mask] with a boolean mask is a copy: gas and oils are working
\* rows, and oils[0, :] -= gas, oils[1, :] -= gas change the copy alone
petro_equilibria ==
    IF petro_raises
    THEN UNCHANGED <<recipes, cset>>
    ELSE LET gas  == petro_gas[1]
             oils == [i \in DOMAIN petro_oils |->
                         IF i <= 2 THEN SubRow(petro_oils[i], gas)
                         ELSE petro_oils[i]]
         IN  /\ A_eq' = A_eq \o oils
             /\ b_eq' = b_eq \o Full(2, 0)
             /\ UNCHANGED <<recipes, A_ub, b_ub, res_expenses, rec_expenses>>

\* variant of resource_expense: the weight added to the one already there
resource_expense_added(resources, ex) ==
    /\ res_expenses' = [r \in DOMAIN res_expenses |->
                           IF resources[r] THEN res_expenses[r] + ex
                           ELSE res_expenses[r]]
    /\ UNCHANGED <<recipes, A_ub, b_ub, A_eq, b_eq, rec_expenses>>

resource_expense(resources, ex) ==
    /\ res_expenses' = [r \in DOMAIN res_expenses |->
                           IF resources[r] THEN ex ELSE res_expenses[r]]
    /\ UNCHANGED <<recipes, A_ub, b_ub, A_eq, b_eq, rec_expenses>>

\* variant of recipe_expense: the weight added to the one already there
recipe_expense_added(recs, ex) ==
    /\ rec_expenses' = [j \in DOMAIN rec_expenses |->
                           IF recs[j] THEN rec_expenses[j] + ex
                           ELSE rec_expenses[j]]
    /\ UNCHANGED <<recipes, A_ub, b_ub, A_eq, b_eq, res_expenses>>

recipe_expense(recs, ex) ==
    /\ rec_expenses' = [j \in DOMAIN rec_expenses |->
                           IF recs[j] THEN ex ELSE rec_expenses[j]]
    /\ UNCHANGED <<recipes, A_ub, b_ub, A_eq, b_eq, res_expenses>>

\* variant of min_resource: the bound left with the sign the caller gave it
min_resource_bound_unsigned(resources, rate) ==
    /\ _add_ub(NegRows(Compress(recipes, resources)), rate)
    /\ UNCHANGED <<recipes, A_eq, b_eq, res_expenses, rec_expenses>>

min_resource(resources, rate) ==
    /\ _add_ub(NegRows(Compress(recipes, resources)), -rate)
    /\ UNCHANGED <<recipes, A_eq, b_eq, res_expenses, rec_expenses>>

\* variant of max_resource: the bound put on the negated rows
max_resource_negated(resources, rate) ==
    /\ _add_ub(NegRows(Compress(recipes, resources)), rate)
    /\ UNCHANGED <<recipes, A_eq, b_eq, res_expenses, rec_expenses>>

max_resource(resources, rate) ==
    /\ _add_ub(Compress(recipes, resources), rate)
    /\ UNCHANGED <<recipes, A_eq, b_eq, res_expenses, rec_expenses>>

\* variant of indicator: one row for each selected column
indicator_per_column(mask, v) ==
    Compress([i \in DOMAIN mask |->
                 [j \in DOMAIN mask |-> IF j = i THEN v ELSE 0]], mask)

\* np.expand_dims(np.where(mask, v, 0), 0): one row
indicator(mask, v) == << [j \in DOMAIN mask |-> IF mask[j] THEN v ELSE 0] >>

min_recipe(recs, rate) ==
    /\ _add_ub(indicator(recs, -1), -rate)
    /\ UNCHANGED <<recipes, A_eq, b_eq, res_expenses, rec_expenses>>

max_recipe(recs, rate) ==
    /\ _add_ub(indicator(recs, 1), rate)
    /\ UNCHANGED <<recipes, A_eq, b_eq, res_expenses, rec_expenses>>

player_laziness(l) ==
    /\ rec_expenses' = [j \in DOMAIN rec_expenses |->
                           IF _manual_idx[j] THEN rec_expenses[j] + l
                           ELSE rec_expenses[j]]
    /\ UNCHANGED <<recipes, A_ub, b_ub, A_eq, b_eq, res_expenses>>

\* variant of max_players: the row and bound of a minimum
max_players_as_minimum(players) ==
    /\ _add_ub(indicator(_manual_idx, -1), -players)
    /\ UNCHANGED <<recipes, A_eq, b_eq, res_expenses, rec_expenses>>

max_players(players) ==
    /\ _add_ub(indicator(_manual_idx, 1), players)
    /\ UNCHANGED <<recipes, A_eq, b_eq, res_expenses, rec_expenses>>

-----------------------------------------------------------------------------
(* linprog: minimise c.x subject to A_ub.x <= b_ub, A_eq.x = b_eq, x >= 0 *)

\* the recipe counts the solver model searches
Grid(n) == [1..n -> 0..XMax]

\* directions along which a feasible region can be unbounded; with at most two
\* recipes every extreme ray of the recession cone has such a direction
Directions(n) == [1..n -> 0..2]

Satisfies(x, Aub, bub, Aeq, beq) ==
    /\ \A i \in DOMAIN Aub : Dot(Aub[i], x) <= bub[i]
    /\ \A k \in DOMAIN Aeq : Dot(Aeq[k], x) = beq[k]

FeasibleSet(n, Aub, bub, Aeq, beq) ==
    {x \in Grid(n) : Satisfies(x, Aub, bub, Aeq, beq)}

\* a direction that keeps every constraint and lowers the objective
Descends(d, c, Aub, Aeq) ==
    /\ \A i \in DOMAIN Aub : Dot(Aub[i], d) <= 0
    /\ \A k \in DOMAIN Aeq : Dot(Aeq[k], d) = 0
    /\ Dot(c, d) < 0

LPStatus(c, Aub, bub, Aeq, beq) ==
    IF FeasibleSet(Len(c), Aub, bub, Aeq, beq) = {} THEN "infeasible"
    ELSE IF \E d \in Directions(Len(c)) : Descends(d, c, Aub, Aeq) THEN "unbounded"
    ELSE "optimal"

Minimisers(c, Aub, bub, Aeq, beq) ==
    LET F      == FeasibleSet(Len(c), Aub, bub, Aeq, beq)
        values == {Dot(c, x) : x \in F}
        least  == CHOOSE v \in values : \A w \in values : v <= w
    IN  {x \in F : Dot(c, x) = least}

\* what result.x may hold when the solver reports a failure: its last iterate
FailX(n) == [1..n -> {-1, 0, XMax}]

\* iteration counts the solver may report
Iterations == {0, 7}

\* result.message: the solver's text for each status
Message(st) ==
    CASE st = "optimal"    -> "Optimization terminated successfully."
      [] st = "infeasible" -> "The problem is infeasible."
      [] st = "unbounded"  -> "The problem is unbounded."
      [] st = "numerical"  -> "Numerical difficulties were encountered."

\* the OptimizeResult of a solve that ended with status st at x
Outcomes(st, X) ==
    {[status |-> st, x |-> x, nit |-> n, message |-> Message(st)] :
         x \in X, n \in Iterations}

\* every outcome linprog may return: the status of the program with any of
\* its minimisers, or a numerical failure
linprog(c, Aub, bub, Aeq, beq) ==
    LET st == LPStatus(c, Aub, bub, Aeq, beq)
    IN  (IF st = "optimal"
         THEN Outcomes(st, Minimisers(c, Aub, bub, Aeq, beq))
         ELSE Outcomes(st, FailX(Len(c))))
        \cup Outcomes("numerical", FailX(Len(c)))

-----------------------------------------------------------------------------
(* run *)

\* variant of Objective: expenses charged on the magnitude of each rate
ObjectiveOfMagnitudes ==
    [j \in 1..n_recipes |->
        SumSeq([r \in 1..n_resources |-> res_expenses[r] * Abs(recipes[r][j])])
        + rec_expenses[j]]

\* c = np.matmul(self.res_expenses, self.recipes) + self.rec_expenses
Objective ==
    [j \in 1..n_recipes |->
        SumSeq([r \in 1..n_resources |-> res_expenses[r] * recipes[r][j]])
        + rec_expenses[j]]

\* variant of Snap: the entries equal to eps trimmed as well
SnapUpToEps(x) == [j \in DOMAIN x |-> IF x[j] <= eps THEN 0 ELSE x[j]]

\* self.result.x[self.result.x < eps] = 0
Snap(x) == [j \in DOMAIN x |-> IF x[j] < eps THEN 0 ELSE x[j]]

\* variant of eq_given: the equality block passed whatever its size
eq_always_given == TRUE

\* if self.b_eq.size: pass the equality block, else None
eq_given == Len(b_eq) > 0

run ==
    /\ pc = "build"
    /\ LET c  == Objective
           Ae == IF eq_given THEN A_eq ELSE << >>
           be == IF eq_given THEN b_eq ELSE << >>
       IN  /\ solverIn' = [called |-> TRUE, c |-> c, A_ub |-> A_ub, b_ub |-> b_ub,
                           eq_given |-> eq_given, A_eq |-> Ae, b_eq |-> be]
           /\ \E out \in linprog(c, A_ub, b_ub, Ae, be) :
                  /\ solverOut' = out
                  /\ result' = [out EXCEPT !.x = Snap(out.x)]
    /\ pc' = "solved"
    /\ UNCHANGED <<catalogue, cset, report, table, left, caller, last, hist>>

-----------------------------------------------------------------------------
(* print *)

\* the recipe names of the catalogues in the order str compares them
NameOrder ==
    <<"Heavy oil cracking", "Oil processing", "R", "S (Manual)", "manual pump">>

name_rank(n) == CHOOSE i \in DOMAIN NameOrder : NameOrder[i] = n

\* variant of tuple_less: rows compared by their value alone
tuple_less_by_value(a, b) == a[1] < b[1]

\* (q, n) < (q2, n2) on tuples of a value and a name
tuple_less(a, b) ==
    \/ a[1] < b[1]
    \/ a[1] = b[1] /\ name_rank(a[2]) < name_rank(b[2])

\* s without its i-th entry
Without(s, i) == [k \in 1..(Len(s) - 1) |-> IF k < i THEN s[k] ELSE s[k + 1]]

\* sorted(rows, reverse=True): largest first, equal rows in their given order
RECURSIVE sorted_reverse(_)
sorted_reverse(rows) ==
    IF rows = << >> THEN << >>
    ELSE LET m == CHOOSE i \in DOMAIN rows :
                      /\ \A k \in DOMAIN rows : ~tuple_less(rows[i], rows[k])
                      /\ \A k \in 1..(i - 1) : tuple_less(rows[k], rows[i])
         IN  <<rows[m]>> \o sorted_reverse(Without(rows, m))

\* diminishing_table(f, title, x, names, digs) with 10 ** -digs = least: the
\* rows it writes, or none when max() of no rows raises ValueError
diminishing_table(x, names, least) ==
    LET pairs == [j \in DOMAIN x |-> <<x[j], names[j]>>]
        kept(row) == row[1] >= least
        rows == sorted_reverse(SelectSeq(pairs, kept))
    IN  [raised |-> rows = << >>, written |-> rows]

\* digs as print() passes it
table_digs == 1

RECURSIVE Pow10(_)
Pow10(k) == IF k = 0 THEN 1 ELSE 10 * Pow10(k - 1)

\* A direct call of diminishing_table counts its values in units of
\* 10 ** -(digs + 1), one decimal more than is displayed: this is 1.0
one(d) == Pow10(d + 1)

\* 10 ** -digs in those units
least_shown(d) == one(d) \div Pow10(d)

\* int(ceil(log10(q))) of the value q = v / one(d), for v >= 1
ceil_log10(v, d) ==
    (CHOOSE e \in 0..8 : Pow10(e) >= v /\ (e = 0 \/ Pow10(e - 1) < v)) - (d + 1)

\* max(q for q, n in rows), rows not empty
largest(rows) ==
    CHOOSE q \in {rows[k][1] : k \in DOMAIN rows} :
        \A k \in DOMAIN rows : rows[k][1] <= q

\* int(ceil(log10(max(...)))) + 1 + digs
q_width(rows, d) == ceil_log10(largest(rows), d) + 1 + d

RECURSIVE n_digits(_)
n_digits(i) == IF i < 10 THEN 1 ELSE 1 + n_digits(i \div 10)

\* the characters of '{:.{digs}f}'.format(q): q rounded to digs decimals (no
\* value here lies halfway), its integer digits, the point, digs decimals
formatted_len(v, d) == n_digits(((v + 5) \div 10) \div Pow10(d)) + 1 + d

\* the characters of '{:>{q_width}.{digs}f}'.format(q): the width of a format
\* specification is a minimum, a longer number is written in full
field_len(v, w, d) == IF formatted_len(v, d) > w THEN formatted_len(v, d) ELSE w

\* no direct call
NoTable ==
    [called |-> FALSE, raised |-> FALSE, x |-> << >>, names |-> << >>,
     rows |-> << >>, q_width |-> 0, fields |-> << >>]

\* the values of a direct call: 0.05, 0.1, 0.5, 1.0, 5.0, 9.96, 10.0, 50.0
TableValues == {5, 10, 50, 100, 500, 996, 1000, 5000}

\* the arguments of a direct call: up to MaxRows values and as many names
TableInputs ==
    {[NoTable EXCEPT !.x = x, !.names = SubSeq(NameOrder, 1, Len(x))] :
         x \in UNION {[1..n -> TableValues] : n \in 0..MaxRows}}

\* diminishing_table(f, title, x, names, digs) called on its own: the rows, the
\* width computed from the largest of them and the width of each field written
DiminishingTable ==
    /\ caller = "table"
    /\ ~table.called
    /\ LET t == diminishing_table(table.x, table.names, least_shown(table_digs))
           w == IF t.raised THEN 0 ELSE q_width(t.written, table_digs)
       IN  table' = [table EXCEPT
                        !.called  = TRUE,
                        !.raised  = t.raised,
                        !.rows    = t.written,
                        !.q_width = w,
                        !.fields  = [k \in DOMAIN t.written |->
                                        field_len(t.written[k][1], w, table_digs)]]
    /\ UNCHANGED <<catalogue, cset, result, solverIn, solverOut, report,
                   pc, left, caller, last, hist>>

\* rates[:, 0] and rates[:, 1] of resource r
produced(r) ==
    SumSeq([j \in 1..n_recipes |->
               (IF recipes[r][j] > 0 THEN recipes[r][j] ELSE 0) * result.x[j]])

consumed(r) ==
    SumSeq([j \in 1..n_recipes |->
               (IF recipes[r][j] < 0 THEN -recipes[r][j] ELSE 0) * result.x[j]])

\* np.any(np.abs(rates) > eps, axis=1)
to_show(r) ==
    \/ produced(r) > print_eps
    \/ consumed(r) > print_eps
    \/ Dot(recipes[r], result.x) > print_eps
    \/ -Dot(recipes[r], result.x) > print_eps

\* (-rates[:, 0]).argsort() over the shown resources: every order that puts
\* a larger produced first; the order of equal ones is the sort's choice
argsort_orders(shown) ==
    {p \in [1..Cardinality(shown) -> shown] :
         /\ \A k, h \in DOMAIN p : p[k] = p[h] => k = h
         /\ \A k \in 1..(Len(p) - 1) : produced(p[k]) >= produced(p[k + 1])}

\* one written number: how it is formatted, the value and what it is divided by
Cell(kind, num, den) == [kind |-> kind, num |-> num, den |-> den]

\* the cells of the line written for resource r
rendered(r) ==
    IF produced(r) > print_eps
    THEN <<Cell("10.3e", produced(r), 1),
           Cell("10.1%", consumed(r), produced(r)),
           Cell("10.1%", Dot(recipes[r], result.x), produced(r))>>
    ELSE <<Cell("10", 0, 1),
           Cell("10.3e", consumed(r), 1)>>

\* a row of the resources array with the cells written for it
resource_row(r) ==
    [name  |-> res_names[r],
     rates |-> <<produced(r), consumed(r), Dot(recipes[r], result.x)>>,
     cells |-> rendered(r)]

\* print(f) after run(): the iteration count and message, the recipe table,
\* the resource table; max() of no shown resource raises ValueError as well
print ==
    /\ pc = "solved"
    /\ LET counts == diminishing_table(result.x, rec_names, display_min)
           shown == {r \in 1..n_resources : to_show(r)}
       IN  \E order \in argsort_orders(shown) :
               report' = [raised        |-> counts.raised \/ shown = {},
                          nit           |-> result.nit,
                          message       |-> result.message,
                          recipe_rows   |-> counts.written,
                          resource_rows |-> IF counts.raised THEN << >>
                                            ELSE [k \in DOMAIN order |->
                                                     resource_row(order[k])]]
    /\ pc' = "printed"
    /\ UNCHANGED <<catalogue, cset, result, solverIn, solverOut, table,
                   left, caller, last, hist>>

-----------------------------------------------------------------------------
(* The caller: a bounded sequence of build calls, then run, then print *)

Selection(mask, these, names) ==
    [mask |-> mask, unknown |-> ~(these \subseteq Range(names))]

NoSelection == [mask |-> << >>, unknown |-> FALSE]

\* name sets passed to these_resources / these_recipes
NameArgs(names) ==
    {{n} : n \in Range(names) \cup {Unknown}} \cup {{names[1], Unknown}}

ResSelections ==
    {Selection(these_resources(t), t, res_names) : t \in NameArgs(res_names)}
    \cup {Selection(resources_but(t), t, res_names) : t \in {{}}}

RecSelections ==
    {Selection(these_recipes(t), t, rec_names) : t \in NameArgs(rec_names)}
    \cup {Selection(recipes_but(t), t, rec_names) : t \in {{}}}

Call(op, sel, val) == [op |-> op, sel |-> sel, val |-> val]

\* any selection with any rate or weight
AnyCalls(op) ==
    CASE op \in {"min_resource", "max_resource"} ->
             {Call(op, s, v) : s \in ResSelections, v \in Rates}
      [] op = "resource_equilibria" ->
             {Call(op, s, 0) : s \in ResSelections}
      [] op = "resource_expense" ->
             {Call(op, s, w) : s \in ResSelections, w \in Weights}
      [] op \in {"min_recipe", "max_recipe"} ->
             {Call(op, s, v) : s \in RecSelections, v \in Rates}
      [] op = "recipe_expense" ->
             {Call(op, s, w) : s \in RecSelections, w \in Weights}
      [] op = "player_laziness" ->
             {Call(op, NoSelection, w) : w \in Weights}
      [] op = "max_players" ->
             {Call(op, NoSelection, v) : v \in Rates}

Res(these) == Selection(these_resources(these), these, res_names)

Rec(these) == Selection(these_recipes(these), these, rec_names)

\* the calls of the scenarios, by catalogue
ScenarioCalls ==
    IF rec_names = CatScenario.rec_names
    THEN {Call("min_resource", Res({"A"}), 0),
          Call("min_recipe", Rec({"R"}), 10),
          Call("resource_expense", Res({"B"}), 1),
          Call("resource_expense", Res({"A", "B"}), 2),
          Call("max_resource", Res({"B"}), 6),
          Call("resource_equilibria", Res({"A"}), 0),
          Call("max_recipe", Rec({"R"}), 10)}
    ELSE IF rec_names = CatPetro.rec_names
    THEN {Call("min_resource", Selection(resources_but({}), {}, res_names), 0),
          Call("min_recipe", Rec({"Oil processing"}), 6)}
    ELSE {Call("min_resource", Res({"A"}), 6),
          Call("min_recipe", Rec({"S (Manual)"}), 6),
          Call("resource_equilibria", Res({"A"}), 0),
          Call("recipe_expense", Rec({"R"}), 1),
          Call("recipe_expense", Rec({"R", "S (Manual)"}), 2),
          Call("resource_expense", Res({"B"}), 1),
          Call("player_laziness", NoSelection, 1),
          Call("max_players", NoSelection, 6)}

Calls(op) ==
    IF caller = "any" THEN AnyCalls(op)
    ELSE {cl \in ScenarioCalls : cl.op = op}

\* the contribution of one resource_expense call to each objective coefficient
Contribution(mask, w) ==
    [j \in 1..n_recipes |->
        w * SumSeq([r \in 1..n_resources |-> IF mask[r] THEN recipes[r][j] ELSE 0])]

\* the caller is still building and has calls left
MayIssue == pc = "build" /\ left > 0

Issued(op, sel, val, raised) ==
    /\ MayIssue
    /\ left' = left - 1
    /\ last' = [op |-> op, mask |-> sel.mask, val |-> val,
                unknown |-> sel.unknown, raised |-> raised]
    /\ hist' = [contrib |-> IF op = "resource_expense"
                            THEN [j \in 1..n_recipes |->
                                     hist.contrib[j] + Contribution(sel.mask, val)[j]]
                            ELSE hist.contrib,
                hits    |-> IF op = "resource_expense"
                            THEN [r \in 1..n_resources |->
                                     hist.hits[r] + (IF sel.mask[r] THEN 1 ELSE 0)]
                            ELSE hist.hits,
                weight  |-> IF op = "resource_expense"
                            THEN [r \in 1..n_resources |->
                                     IF sel.mask[r] THEN val ELSE hist.weight[r]]
                            ELSE hist.weight,
                calls   |-> IF caller = "scenario"
                            THEN hist.calls \cup {<<op, sel.mask, val>>}
                            ELSE hist.calls]
    /\ UNCHANGED <<rec_names, res_names, result, solverIn, solverOut, report,
                   table, pc, caller>>

PetroSelection ==
    Selection(<< >>, {"Petroleum gas", "Light oil", "Heavy oil"}, res_names)

MinResource ==
    /\ MayIssue
    /\ \E cl \in Calls("min_resource") :
           /\ min_resource(cl.sel.mask, cl.val)
           /\ Issued(cl.op, cl.sel, cl.val, FALSE)

MaxResource ==
    /\ MayIssue
    /\ \E cl \in Calls("max_resource") :
           /\ max_resource(cl.sel.mask, cl.val)
           /\ Issued(cl.op, cl.sel, cl.val, FALSE)

MinRecipe ==
    /\ MayIssue
    /\ \E cl \in Calls("min_recipe") :
           /\ min_recipe(cl.sel.mask, cl.val)
           /\ Issued(cl.op, cl.sel, cl.val, FALSE)

MaxRecipe ==
    /\ MayIssue
    /\ \E cl \in Calls("max_recipe") :
           /\ max_recipe(cl.sel.mask, cl.val)
           /\ Issued(cl.op, cl.sel, cl.val, FALSE)

ResourceEquilibria ==
    /\ MayIssue
    /\ \E cl \in Calls("resource_equilibria") :
           /\ resource_equilibria(cl.sel.mask)
           /\ Issued(cl.op, cl.sel, cl.val, FALSE)

PetroEquilibria ==
    /\ MayIssue
    /\ petro_equilibria
    /\ Issued("petro_equilibria", PetroSelection, 0, petro_raises)

ResourceExpense ==
    /\ MayIssue
    /\ \E cl \in Calls("resource_expense") :
           /\ resource_expense(cl.sel.mask, cl.val)
           /\ Issued(cl.op, cl.sel, cl.val, FALSE)

RecipeExpense ==
    /\ MayIssue
    /\ \E cl \in Calls("recipe_expense") :
           /\ recipe_expense(cl.sel.mask, cl.val)
           /\ Issued(cl.op, cl.sel, cl.val, FALSE)

PlayerLaziness ==
    /\ MayIssue
    /\ \E cl \in Calls("player_laziness") :
           /\ player_laziness(cl.val)
           /\ Issued(cl.op, cl.sel, cl.val, FALSE)

MaxPlayers ==
    /\ MayIssue
    /\ \E cl \in Calls("max_players") :
           /\ max_players(cl.val)
           /\ Issued(cl.op, cl.sel, cl.val, FALSE)

\* self.result = None
NoResult == [status |-> "none", x |-> << >>, nit |-> 0, message |-> ""]

\* nothing written yet
NoReport ==
    [raised |-> FALSE, nit |-> 0, message |-> "",
     recipe_rows |-> << >>, resource_rows |-> << >>]

\* Model.__init__ on the arrays of catalogue cat
Constructed(cat) ==
    /\ recipes = cat.recipes
    /\ rec_names = cat.rec_names
    /\ res_names = cat.res_names
    /\ res_expenses = Full(Len(cat.res_names), 0)
    /\ rec_expenses = Full(Len(cat.rec_names), 0)
    /\ A_ub = << >> /\ b_ub = << >>
    /\ A_eq = << >> /\ b_eq = << >>
    /\ result = NoResult

Fresh(cat) ==
    /\ solverIn = [called |-> FALSE, c |-> << >>, A_ub |-> << >>, b_ub |-> << >>,
                   eq_given |-> FALSE, A_eq |-> << >>, b_eq |-> << >>]
    /\ solverOut = NoResult
    /\ report = NoReport
    /\ pc = "build"
    /\ last = [op |-> "__init__", mask |-> << >>, val |-> 0,
               unknown |-> FALSE, raised |-> FALSE]
    /\ hist = [contrib |-> Full(Len(cat.rec_names), 0),
               hits    |-> Full(Len(cat.res_names), 0),
               weight  |-> Full(Len(cat.res_names), 0),
               calls   |-> {}]

Init ==
    \E cat \in Catalogues :
        /\ Constructed(cat) /\ Fresh(cat)
        /\ table = NoTable
        /\ left = MaxOps
        /\ caller = "any"

Build ==
    \/ MinResource \/ MaxResource \/ MinRecipe \/ MaxRecipe
    \/ ResourceEquilibria \/ PetroEquilibria
    \/ ResourceExpense \/ RecipeExpense
    \/ PlayerLaziness \/ MaxPlayers

Next == Build

\* the builder: any catalogue, any build calls
Spec == Init /\ [][Next]_vars

InitSolve ==
    \E cat \in SolveCatalogues :
        /\ Constructed(cat) /\ Fresh(cat)
        /\ table = NoTable
        /\ left = MaxSolveOps
        /\ caller = "scenario"

NextSolve == Build \/ run \/ print

\* the scenarios: their catalogues and calls, then run and print
SpecSolve == InitSolve /\ [][NextSolve]_vars

InitTable ==
    /\ Constructed(CatScenario) /\ Fresh(CatScenario)
    /\ left = 0
    /\ caller = "table"
    /\ table \in TableInputs

NextTable == DiminishingTable

\* the table: diminishing_table called on its own with values of any size
SpecTable == InitTable /\ [][NextTable]_vars

-----------------------------------------------------------------------------
(* The two-resource scenario: resources A, B, recipe R with A:+1, B:-1 *)

IsScenarioCatalogue ==
    /\ res_names = <<"A", "B">>
    /\ rec_names = <<"R">>
    /\ recipes = << <<1>>, <<-1>> >>

OnlyA == <<TRUE, FALSE>>

OnlyB == <<FALSE, TRUE>>

OnlyR == <<TRUE>>

\* the calls min_resource({A}, 0), min_recipe({R}, 5), resource_expense({B}, 1)
\* and no other
C1_Built ==
    /\ IsScenarioCatalogue
    /\ hist.calls = {<<"min_resource", OnlyA, 0>>,
                     <<"min_recipe", OnlyR, 10>>,
                     <<"resource_expense", OnlyB, 1>>}

\* C1 as stated: in the two-resource scenario, after min_resource({A}, 0),
\* min_recipe({R}, 5) and resource_expense({B}, 1), a solve that does not fail
\* numerically succeeds with x[R] = 5 (10 quanta), the minimiser of the
\* assembled objective over the assembled constraints.
C1_MinimiserIsTarget ==
    (pc = "solved" /\ C1_Built /\ result.status # "numerical")
        => (result.status = "optimal" /\ result.x = <<10>>)

\* C1 as amended: in that scenario the objective handed to the solver is
\* -1 * x[R] (weight 1 times the rate -1 of B); over the assembled
\* constraints, which every x[R] >= 5 satisfies, it has no minimiser, and
\* the solve ends unbounded (or in a numerical failure), never with x[R] = 5.
C1_ScenarioIsUnbounded ==
    C1_Built =>
        /\ Objective = <<-1>>
        /\ \A x \in Grid(1) : Satisfies(x, A_ub, b_ub, A_eq, b_eq) <=> x[1] >= 10
        /\ pc = "solved" =>
              /\ solverIn.c = <<-1>>
              /\ result.status \in {"unbounded", "numerical"}

C1_Witness ==
    /\ pc = "solved"
    /\ C1_Built
    /\ result.status = "unbounded"

\* the calls max_resource({B}, 3) and min_recipe({R}, 5), with or without
\* expense calls
C2_Built ==
    /\ IsScenarioCatalogue
    /\ {cl \in hist.calls : cl[1] \notin {"resource_expense", "recipe_expense"}}
           = {<<"max_resource", OnlyB, 6>>, <<"min_recipe", OnlyR, 10>>}

\* C2 as stated: in the two-resource scenario the constraints built by
\* max_resource({B}, 3) and min_recipe({R}, 5) admit no x >= 0, and a solve
\* that does not fail numerically reports infeasible.
C2_CapMakesInfeasible ==
    C2_Built =>
        /\ \A x \in Grid(1) : ~Satisfies(x, A_ub, b_ub, A_eq, b_eq)
        /\ (pc = "solved" /\ result.status # "numerical")
               => result.status = "infeasible"

\* C2 as amended: max_resource({B}, 3) bounds the net rate of B, which is
\* -x[R], from above; every x[R] >= 5 satisfies both rows, the constraint set
\* is feasible and solving never reports infeasible.
C2_CapIsSatisfied ==
    C2_Built =>
        /\ \A x \in Grid(1) : Satisfies(x, A_ub, b_ub, A_eq, b_eq) <=> x[1] >= 10
        /\ pc = "solved" => result.status # "infeasible"

C2_Witness ==
    /\ pc = "solved"
    /\ C2_Built
    /\ result.status = "optimal"
    /\ result.x[1] >= 10

-----------------------------------------------------------------------------
(* Constraints and the trimmed solution *)

\* net rate of resource r under the solution run() left: matrix row times x
Achieved(r) == Dot(recipes[r], result.x)

Succeeded == pc = "solved" /\ result.status = "optimal"

\* C3 as stated: after min_resource(mask, r) and a successful run() the
\* trimmed solution gives every resource of mask a net rate of at least
\* r - eps, and after max_resource(mask, r) of at most r + eps.
C3_BoundsHoldAfterTrim ==
    Succeeded =>
        \A cl \in hist.calls : \A r \in DOMAIN cl[2] :
            /\ (cl[1] = "min_resource" /\ cl[2][r]) => Achieved(r) >= cl[3] - eps
            /\ (cl[1] = "max_resource" /\ cl[2][r]) => Achieved(r) <= cl[3] + eps

\* C4 as stated: after resource_equilibria(mask) and a successful run() the
\* trimmed solution gives every selected resource a net rate within eps of
\* zero, and x[R] = 0 when the only recipe produces the selected resource.
C4_EquilibriumHoldsAfterTrim ==
    Succeeded =>
        \A cl \in hist.calls : \A r \in DOMAIN cl[2] :
            (cl[1] = "resource_equilibria" /\ cl[2][r]) =>
                /\ Abs(Achieved(r)) <= eps
                /\ (n_recipes = 1 /\ recipes[r][1] > 0) => result.x = <<0>>

-----------------------------------------------------------------------------
(* Names that are not in the catalogue, names that repeat *)

\* C5 as stated: a build call whose selection names a resource or recipe
\* that is not in the catalogue fails with an error.
C5_UnknownNameFails == last.unknown => last.raised

\* C6 as stated: a build call issued for a name that is not in the catalogue
\* leaves A_ub, b_ub, A_eq, b_eq and both expense vectors as they were.
C6_UnknownNameLeavesConstraints ==
    [][(left' = left - 1 /\ last'.unknown) => UNCHANGED cset]_vars

\* C7 as stated: no model whose resource names or recipe names repeat a name
\* gets as far as a build call: its construction fails.
C7_DuplicateNamesRejected ==
    last.op # "__init__" => (NoDuplicates(res_names) /\ NoDuplicates(rec_names))

-----------------------------------------------------------------------------
(* Growth of the constraint set *)

IsPrefix(s, t) == Len(s) <= Len(t) /\ \A i \in DOMAIN s : t[i] = s[i]

\* what t holds after the entries of its prefix s
Added(s, t) == [k \in 1..(Len(t) - Len(s)) |-> t[Len(s) + k]]

\* the k-th smallest index a mask selects
KthSelected(mask, k) ==
    CHOOSE i \in DOMAIN mask :
        mask[i] /\ Cardinality({h \in DOMAIN mask : mask[h] /\ h < i}) = k - 1

Selected(mask) == {i \in DOMAIN mask : mask[i]}

\* the rows of one call follow the index order of the resources it selects
InResourceOrder(new, mask, sign) ==
    /\ Len(new) = Cardinality(Selected(mask))
    /\ \A k \in DOMAIN new :
           new[k] = [j \in 1..n_recipes |-> sign * recipes[KthSelected(mask, k)][j]]

\* C8: the constraint set starts with no inequality and no equality row;
\* every step keeps each existing row and bound at its position and places
\* new rows after them, the rows of one min_resource, max_resource or
\* resource_equilibria call in the index order of the selected resources.
C8_RowsOnlyAppended ==
    /\ (Len(A_ub) = 0 /\ Len(b_ub) = 0 /\ Len(A_eq) = 0 /\ Len(b_eq) = 0)
    /\ [][/\ IsPrefix(A_ub, A_ub') /\ IsPrefix(b_ub, b_ub')
          /\ IsPrefix(A_eq, A_eq') /\ IsPrefix(b_eq, b_eq')
          /\ (left' = left - 1 /\ last'.op = "min_resource")
                 => InResourceOrder(Added(A_ub, A_ub'), last'.mask, -1)
          /\ (left' = left - 1 /\ last'.op = "max_resource")
                 => InResourceOrder(Added(A_ub, A_ub'), last'.mask, 1)
          /\ (left' = left - 1 /\ last'.op = "resource_equilibria")
                 => InResourceOrder(Added(A_eq, A_eq'), last'.mask, 1)
         ]_vars

\* a second call has appended its rows, several of them, after those of a
\* first call
C8_Witness ==
    /\ left = 0
    /\ last.op \in {"min_resource", "max_resource"}
    /\ Cardinality(Selected(last.mask)) >= 2
    /\ Len(A_ub) > Cardinality(Selected(last.mask))
    /\ A_ub[1] # A_ub[Len(A_ub)]

-----------------------------------------------------------------------------
(* The objective handed to the solver *)

\* resource weights w projected through the matrix, for recipe j
Projected(w, j) == SumSeq([r \in 1..n_resources |-> w[r] * recipes[r][j]])

NoDirectWeights == \A j \in 1..n_recipes : rec_expenses[j] = 0

\* C9 as stated: every resource_expense call adds its contribution, so the
\* objective handed to the solver is the sum of the contributions of all the
\* resource_expense calls (where no recipe has a direct weight).
C9_ObjectiveSumsCalls ==
    (pc = "solved" /\ NoDirectWeights) => solverIn.c = hist.contrib

\* C9 as amended: a resource_expense call sets the weight of every selected
\* resource, replacing the weight an earlier call gave it; the objective
\* handed to the solver is, for every recipe j, the sum over the resources of
\* the weight last given times RateMatrix[r, j], plus the direct weight of j.
\* It is the sum of the calls' contributions when no resource was selected
\* by more than one call.
C9_ObjectiveUsesLastWeight ==
    pc = "solved" =>
        /\ \A j \in 1..n_recipes :
               solverIn.c[j] = Projected(hist.weight, j) + rec_expenses[j]
        /\ (NoDirectWeights /\ \A r \in 1..n_resources : hist.hits[r] <= 1)
               => solverIn.c = hist.contrib

\* a resource was selected by two calls and the objective is not their sum
C9_Witness ==
    /\ pc = "solved"
    /\ \E r \in 1..n_resources : hist.hits[r] = 2 /\ hist.weight[r] # 0
    /\ NoDirectWeights
    /\ solverIn.c # hist.contrib

\* C10: recipe_expense(mask, weight) sets the direct weight of every selected
\* recipe to weight and keeps that of every other recipe; the objective
\* coefficient run() hands to the solver for recipe j is the projected
\* resource cost plus the direct weight of j.
C10_DirectWeightSetAndAdded ==
    [][/\ (left' = left - 1 /\ last'.op = "recipe_expense") =>
              \A j \in 1..n_recipes :
                  rec_expenses'[j] = IF last'.mask[j] THEN last'.val
                                     ELSE rec_expenses[j]
       /\ (pc = "build" /\ pc' = "solved") =>
              \A j \in 1..n_recipes :
                  solverIn'.c[j] = Projected(res_expenses, j) + rec_expenses[j]
      ]_vars

\* a recipe_expense call has left the weight of an unselected recipe in
\* place, and projected and direct costs both reach the solver
C10_Witness ==
    /\ pc = "solved"
    /\ last.op = "recipe_expense"
    /\ \E j \in 1..n_recipes : last.mask[j] /\ rec_expenses[j] = last.val
    /\ \E j \in 1..n_recipes : ~last.mask[j] /\ rec_expenses[j] # 0
    /\ \E j \in 1..n_recipes : Projected(res_expenses, j) # 0 /\ rec_expenses[j] # 0

-----------------------------------------------------------------------------
(* What each build operation appends *)

\* the step is a call of build operation op
IssuedNow(op) == left' = left - 1 /\ last'.op = op

\* the inequality block keeps its rows and gains rows with bounds b
UbGains(rows, b) ==
    /\ IsPrefix(A_ub, A_ub') /\ IsPrefix(b_ub, b_ub')
    /\ Len(A_ub') = Len(A_ub) + rows
    /\ Len(b_ub') = Len(b_ub) + rows
    /\ \A k \in 1..rows : b_ub'[Len(b_ub) + k] = b

\* C11: min_resource(mask, rate) appends one inequality row per selected
\* resource, the negated RateMatrix row with bound -rate; max_resource(mask,
\* rate) appends one row per selected resource, the RateMatrix row with bound
\* rate; neither changes the equality block or the expenses.
C11_ResourceBoundRows ==
    [][/\ IssuedNow("min_resource") =>
              /\ UbGains(Cardinality(Selected(last'.mask)), -last'.val)
              /\ InResourceOrder(Added(A_ub, A_ub'), last'.mask, -1)
              /\ UNCHANGED <<A_eq, b_eq, res_expenses, rec_expenses>>
       /\ IssuedNow("max_resource") =>
              /\ UbGains(Cardinality(Selected(last'.mask)), last'.val)
              /\ InResourceOrder(Added(A_ub, A_ub'), last'.mask, 1)
              /\ UNCHANGED <<A_eq, b_eq, res_expenses, rec_expenses>>
      ]_vars

\* min_resource with a rate other than zero has appended two negated rows
\* after an earlier row
C11_Witness ==
    /\ last.op = "min_resource"
    /\ last.val # 0
    /\ Cardinality(Selected(last.mask)) = 2
    /\ Len(A_ub) = 3
    /\ b_ub[3] = -last.val
    /\ A_ub[3] = NegRow(recipes[KthSelected(last.mask, 2)])
    /\ A_ub[3] # recipes[KthSelected(last.mask, 2)]

\* recipe counts whose sums over any selection fall below, on and above the
\* rates the caller passes
Probes(n) == [1..n -> {0, 3, 6}]

\* sum of the rates x gives the recipes of mask
SumSelected(x, mask) == SumSeq([j \in DOMAIN mask |-> IF mask[j] THEN x[j] ELSE 0])

\* C12: min_recipe(mask, rate) and max_recipe(mask, rate) each append one
\* inequality row however many recipes are selected: -1 (min) or +1 (max) on
\* every selected recipe and 0 elsewhere, with bound -rate (min) or rate
\* (max); a vector x of recipe counts satisfies the row exactly when the sum
\* of the selected recipes' rates is >= rate (min) or <= rate (max).
C12_RecipeBoundRow ==
    [][/\ IssuedNow("min_recipe") =>
              /\ UbGains(1, -last'.val)
              /\ A_ub'[Len(A_ub')] =
                     [j \in 1..n_recipes |-> IF last'.mask[j] THEN -1 ELSE 0]
              /\ \A x \in Probes(n_recipes) :
                     Dot(A_ub'[Len(A_ub')], x) <= b_ub'[Len(b_ub')]
                         <=> SumSelected(x, last'.mask) >= last'.val
       /\ IssuedNow("max_recipe") =>
              /\ UbGains(1, last'.val)
              /\ A_ub'[Len(A_ub')] =
                     [j \in 1..n_recipes |-> IF last'.mask[j] THEN 1 ELSE 0]
              /\ \A x \in Probes(n_recipes) :
                     Dot(A_ub'[Len(A_ub')], x) <= b_ub'[Len(b_ub')]
                         <=> SumSelected(x, last'.mask) <= last'.val
      ]_vars

\* min_recipe on two recipes has appended its one row after an earlier row
C12_Witness ==
    /\ last.op = "min_recipe"
    /\ last.val # 0
    /\ Cardinality(Selected(last.mask)) = 2
    /\ Len(A_ub) = 2
    /\ A_ub[2] = <<-1, -1>>
    /\ b_ub[2] = -last.val

\* C13: resource_equilibria(mask) appends one equality row per selected
\* resource, that resource's RateMatrix row with right-hand side 0, and
\* appends nothing to the inequality block.
C13_EquilibriumRows ==
    [][IssuedNow("resource_equilibria") =>
           /\ IsPrefix(A_eq, A_eq') /\ IsPrefix(b_eq, b_eq')
           /\ InResourceOrder(Added(A_eq, A_eq'), last'.mask, 1)
           /\ Added(b_eq, b_eq') = Full(Cardinality(Selected(last'.mask)), 0)
           /\ UNCHANGED <<A_ub, b_ub>>
      ]_vars

\* resource_equilibria on two resources has appended their two rows to an
\* equality block that held rows, next to an inequality block that holds one
C13_Witness ==
    /\ last.op = "resource_equilibria"
    /\ Cardinality(Selected(last.mask)) = 2
    /\ Len(A_eq) = 2 /\ Len(A_ub) >= 1
    /\ A_eq = <<recipes[KthSelected(last.mask, 1)], recipes[KthSelected(last.mask, 2)]>>
    /\ b_eq = <<0, 0>>

\* the resources that carry a name
Named(name) == {r \in 1..n_resources : res_names[r] = name}

\* C14 as stated: a petro_equilibria() call that returns appends exactly two
\* equality rows with right-hand side 0, (Light oil row - Petroleum gas row)
\* and (Heavy oil row - Petroleum gas row); every x that satisfies them gives
\* Light oil, Heavy oil and Petroleum gas the same net rate.
C14_PetroAppendsTwoRows ==
    [][(IssuedNow("petro_equilibria") /\ ~last'.raised) =>
           LET new == Added(A_eq, A_eq')
           IN  /\ IsPrefix(A_eq, A_eq') /\ IsPrefix(b_eq, b_eq')
               /\ Len(new) = 2
               /\ Added(b_eq, b_eq') = <<0, 0>>
               /\ Range(new) =
                      {SubRow(recipes[o], recipes[g]) :
                           o \in Named("Light oil") \cup Named("Heavy oil"),
                           g \in Named("Petroleum gas")}
               /\ \A x \in Probes(n_recipes) :
                      (\A k \in DOMAIN new : Dot(new[k], x) = 0) =>
                          \A o \in Named("Light oil") \cup Named("Heavy oil"),
                             g \in Named("Petroleum gas") :
                              Dot(recipes[o], x) = Dot(recipes[g], x)
      ]_vars

-----------------------------------------------------------------------------
(* Manual recipes *)

\* the recipe names of the catalogues that hold the marker, in any case
HoldsMarker(name) == name \in {"S (Manual)", "manual pump"}

\* C15: player_laziness(penalty) adds penalty to the direct weight of every
\* recipe whose name holds the marker 'manual', in whatever case it is
\* written, and leaves the direct weight of every other recipe and all
\* constraint rows as they were.
C15_LazinessAddsToManual ==
    [][IssuedNow("player_laziness") =>
           /\ \A j \in 1..n_recipes :
                  rec_expenses'[j] =
                      rec_expenses[j] + (IF HoldsMarker(rec_names[j]) THEN last'.val ELSE 0)
           /\ UNCHANGED <<A_ub, b_ub, A_eq, b_eq>>
      ]_vars

\* a penalty has been added to the weight a recipe written 'Manual' already
\* had, next to a recipe without the marker and a constraint row
C15_Witness ==
    /\ last.op = "player_laziness"
    /\ \E j \in 1..n_recipes :
           rec_names[j] = "S (Manual)" /\ rec_expenses[j] > last.val
    /\ \E j \in 1..n_recipes : ~HoldsMarker(rec_names[j]) /\ rec_expenses[j] = 0

\* C16: max_players(count) appends one inequality row with 1 on every manual
\* recipe and 0 on every other recipe, with bound count: the row max_recipe
\* appends for the mask of the manual recipes.
C16_MaxPlayersRow ==
    [][IssuedNow("max_players") =>
           /\ UbGains(1, last'.val)
           /\ A_ub'[Len(A_ub')] =
                  [j \in 1..n_recipes |-> IF HoldsMarker(rec_names[j]) THEN 1 ELSE 0]
           /\ UNCHANGED <<A_eq, b_eq, res_expenses, rec_expenses>>
      ]_vars

\* max_players has appended its row, with a manual and another recipe, after
\* an earlier row
C16_Witness ==
    /\ last.op = "max_players"
    /\ last.val # 0
    /\ Len(A_ub) = 2
    /\ A_ub[2] = <<0, 1>>
    /\ b_ub[2] = last.val

-----------------------------------------------------------------------------
(* What run() hands to the solver and keeps of its answer *)

\* C17: run() hands the solver no equality constraints (none, rather than
\* matrices of zero rows) exactly when the equality block has no row, and
\* hands it A_eq and b_eq as accumulated when the block has a row.
C17_EqualityBlockOnlyWithRows ==
    pc = "solved" =>
        /\ solverIn.eq_given <=> Len(A_eq) > 0
        /\ Len(A_eq) > 0 => (solverIn.A_eq = A_eq /\ solverIn.b_eq = b_eq)

\* a program with inequality rows and no equality row has been solved
\* without an equality block
C17_Witness ==
    /\ pc = "solved"
    /\ solverIn.called
    /\ Len(A_ub) > 0 /\ Len(A_eq) = 0
    /\ ~solverIn.eq_given

Ran == pc \in {"solved", "printed"}

\* C18: after run() every entry of the solution is 0 or at least eps: every
\* entry the solver returned below eps, the negative ones included, is 0, and
\* every entry at or above eps is as the solver returned it.
C18_SolutionTrimmed ==
    Ran =>
        /\ DOMAIN result.x = DOMAIN solverOut.x
        /\ \A j \in DOMAIN result.x :
               /\ result.x[j] = 0 \/ result.x[j] >= eps
               /\ solverOut.x[j] < eps => result.x[j] = 0
               /\ solverOut.x[j] >= eps => result.x[j] = solverOut.x[j]

\* a solve has returned one entry just below eps and one equal to eps; the
\* first is 0 and the second is kept
C18_Witness ==
    /\ pc = "solved"
    /\ \E j \in DOMAIN result.x : solverOut.x[j] = eps - 1 /\ result.x[j] = 0
    /\ \E j \in DOMAIN result.x : solverOut.x[j] = eps /\ result.x[j] = eps

-----------------------------------------------------------------------------
(* The report *)

\* C19 as stated: whatever result the solver returned (optimal, infeasible,
\* unbounded or a numerical failure, a solution with no recipe value at the
\* display threshold included), print() after run() completes without
\* raising, and the report carries the solver's message and iteration count
\* as the solver gave them.
C19_PrintNeverRaises ==
    pc = "printed" =>
        /\ ~report.raised
        /\ report.message = solverOut.message
        /\ report.nit = solverOut.nit

\* the recipes whose value is at least the display threshold
Displayed == {j \in 1..n_recipes : result.x[j] >= display_min}

\* name a comes after name b in string order, for the recipe names of one
\* catalogue
ComesAfter(a, b) ==
    <<a, b>> \in {<<"S (Manual)", "R">>, <<"Oil processing", "Heavy oil cracking">>}

\* C20: the recipe table holds exactly the (value, name) pairs whose value is
\* at least 10^-digits, each once, ordered by value descending and, among
\* equal values, by name descending.
C20_RecipeTableFilteredAndSorted ==
    pc = "printed" =>
        LET rows == report.recipe_rows
        IN  /\ Len(rows) = Cardinality(Displayed)
            /\ \A j \in Displayed :
                   \E k \in DOMAIN rows : rows[k] = <<result.x[j], rec_names[j]>>
            /\ \A k \in DOMAIN rows :
                   \E j \in Displayed : rows[k] = <<result.x[j], rec_names[j]>>
            /\ \A k \in 1..(Len(rows) - 1) :
                   \/ rows[k][1] > rows[k + 1][1]
                   \/ /\ rows[k][1] = rows[k + 1][1]
                      /\ ComesAfter(rows[k][2], rows[k + 1][2])

\* a table of two recipes with the same value, while a run of another
\* catalogue would show one recipe only
C20_Witness ==
    /\ pc = "printed"
    /\ ~report.raised
    /\ Len(report.recipe_rows) = 2
    /\ report.recipe_rows[1][1] = report.recipe_rows[2][1]
    /\ report.recipe_rows[1][2] = "S (Manual)"

-----------------------------------------------------------------------------
(* The resource table *)

\* the rate of resource r summed over the recipes whose rate has sign sgn
SignedSum(r, sgn) ==
    SumSeq([j \in 1..n_recipes |->
               IF sgn * recipes[r][j] > 0 THEN sgn * recipes[r][j] * result.x[j]
               ELSE 0])

\* some magnitude of resource r exceeds the noise floor
AboveFloor(r) ==
    \/ SignedSum(r, 1) > print_eps
    \/ SignedSum(r, -1) > print_eps
    \/ Abs(SignedSum(r, 1) - SignedSum(r, -1)) > print_eps

\* C21 as stated: the resource table of a printed report gives every
\* resource it lists produced = sum of the positive rates times x, consumed =
\* sum of the negated negative rates times x and excess = produced -
\* consumed; it lists exactly the resources for which one of the three
\* magnitudes exceeds the noise floor, each once, in order of non-increasing
\* produced.
C21_ResourceTableFilteredAndSorted ==
    pc = "printed" =>
        LET rows == report.resource_rows
        IN  /\ \A r \in 1..n_resources :
                   AboveFloor(r) <=> \E k \in DOMAIN rows : rows[k].name = res_names[r]
            /\ \A k, h \in DOMAIN rows : rows[k].name = rows[h].name => k = h
            /\ \A k \in DOMAIN rows : \A r \in 1..n_resources :
                   rows[k].name = res_names[r] =>
                       /\ rows[k].rates[1] = SignedSum(r, 1)
                       /\ rows[k].rates[2] = SignedSum(r, -1)
                       /\ rows[k].rates[3] = rows[k].rates[1] - rows[k].rates[2]
            /\ \A k \in 1..(Len(rows) - 1) :
                   rows[k].rates[1] >= rows[k + 1].rates[1]

\* C22 as stated: every row of the resource table shows the resource's
\* produced, consumed and excess; consumed and excess are written as a
\* percentage of produced when produced exceeds the noise floor and as raw
\* values otherwise, and nothing is divided by a produced value at or below
\* the noise floor.
C22_RowsShowThreeRates ==
    pc = "printed" =>
        \A k \in DOMAIN report.resource_rows :
            LET row   == report.resource_rows[k]
                cells == row.cells
            IN  /\ Len(cells) = 3
                /\ cells[1].num = row.rates[1]
                /\ cells[2].num = row.rates[2]
                /\ cells[3].num = row.rates[3]
                /\ \A i \in {2, 3} :
                       IF row.rates[1] > print_eps
                       THEN cells[i].kind = "10.1%" /\ cells[i].den = row.rates[1]
                       ELSE cells[i].kind # "10.1%"
                /\ \A i \in DOMAIN cells :
                       cells[i].kind = "10.1%" => cells[i].den > print_eps

-----------------------------------------------------------------------------
(* The rate matrix *)

\* C23: the rate matrix is never modified after construction: after any
\* build operations (petro_equilibria, which subtracts the gas row from the
\* oil rows in place on its working rows, included), run() and print(), every
\* entry of the matrix is the entry the model was constructed with.
C23_MatrixAsConstructed ==
    \E cat \in SolveCatalogues :
        /\ rec_names = cat.rec_names
        /\ res_names = cat.res_names
        /\ recipes = cat.recipes

\* petro_equilibria has appended its two rows, which differ from the oil
\* rows of the matrix, and the model has been solved and printed
C23_Witness ==
    /\ pc = "printed"
    /\ ~report.raised
    /\ <<"petro_equilibria", << >>, 0>> \in hist.calls
    /\ Len(A_eq) = 2
    /\ A_eq # Compress(recipes, these_resources({"Light oil", "Heavy oil"}))

-----------------------------------------------------------------------------
(* The width of the numeric column *)

\* C24 as stated: whenever diminishing_table writes rows, the width it
\* computed from the largest value kept is at least the number of characters
\* of that value formatted with digs decimals, and every numeric field written
\* has exactly that width, so that the column is aligned.
C24_WidthFitsLargest ==
    (table.called /\ ~table.raised) =>
        /\ table.q_width >= formatted_len(largest(table.rows), table_digs)
        /\ \A k \in DOMAIN table.fields : table.fields[k] = table.q_width

-----------------------------------------------------------------------------
(* The shapes of the constraint arrays *)

\* C25 as stated: after any sequence of build calls A_ub has as many rows as
\* b_ub, A_eq has as many rows as b_eq, and every row of A_ub and of A_eq has
\* one entry per recipe.
C25_ShapesAgree ==
    /\ Len(A_ub) = Len(b_ub)
    /\ Len(A_eq) = Len(b_eq)
    /\ \A k \in DOMAIN A_ub : Len(A_ub[k]) = n_recipes
    /\ \A k \in DOMAIN A_eq : Len(A_eq[k]) = n_recipes

====
